---- MODULE Spec2Model ----
(***************************************************************************)
(* SpannerMetadata (spanner_orm/admin/metadata.py): the three memoized     *)
(* class-level accessors tables(), indexes() and models(), the lookup      *)
(* model(name), and the Field objects (spanner_orm/field.py) they build.   *)
(*                                                                         *)
(* Python objects live in heaps (sequences indexed by object id), so that  *)
(* object identity, sharing and mutation after publication are visible.    *)
(* Every caller is a thread; a thread executes one accessor call at a      *)
(* time, one step per access to shared state or to the catalog.            *)
(***************************************************************************)
EXTENDS Integers, Sequences, FiniteSets, TLC

\* ------------------------------------------------------------------ bounds
NumProcs == 2          \* callers (threads)
MaxCalls == 2          \* top-level accessor calls in one behaviour of Spec
MaxSeqCalls == 3       \* top-level accessor calls in one behaviour of SeqSpec
MaxIndexRows == 2      \* index rows of a catalog in the index specification
MaxIndexColumnRows == 3 \* index-column rows of such a catalog
MaxLength == 2          \* largest small length given to a Field
MaxFieldCalls == 2      \* operations in one behaviour of FieldSpec and TypeSpec

Procs == 1 .. NumProcs

\* Python's None, for a cache slot, an object reference or a row attribute.
\* Object ids start at 1.
None == 0
NoName == "None"       \* None where the other values are names (strings)

\* index.Index.PRIMARY_INDEX: the reserved name of a table's primary index.
PRIMARY_INDEX == "PRIMARY_KEY"

EmptyMap == << >>      \* a dict with no key

\* d[k] for a collections.defaultdict(dict) / defaultdict(list) that is only
\* read: the stored value, or the default-factory value for a missing key.
GetOr(d, k, default) == IF k \in DOMAIN d THEN d[k] ELSE default

\* d[k] = v for a dict
Put(d, k, v) == [x \in (DOMAIN d) \cup {k} |-> IF x = k THEN v ELSE d[x]]

\* ------------------------------------------------------------- the catalog
\* Rows as the row-fetch collaborator returns them.
ColumnRow(t, c, pos, ty, nullable) ==
  [table_name |-> t, column_name |-> c, ordinal_position |-> pos,
   field_type |-> ty, nullable |-> nullable]

TableRow(t, parent) == [table_name |-> t, parent_table_name |-> parent]

\* ordinal_position = None (0) marks a storing column.
IndexColumnRow(t, i, c, pos) ==
  [table_name |-> t, index_name |-> i, column_name |-> c,
   ordinal_position |-> pos]

IndexRow(t, i, parent, nf, uq) ==
  [table_name |-> t, index_name |-> i, parent_table_name |-> parent,
   is_null_filtered |-> nf, is_unique |-> uq]

TableNames == {"A", "B"}

\* The parents a table row may declare: none, itself or the other table for
\* A; none, A or "Z", which is never a reflected table, for B.
ParentNames(t) == IF t = "A" THEN {NoName, "A", "B"} ELSE {NoName, "A", "Z"}

\* All sequences without repetition over the set S.
RECURSIVE Perms(_)
Perms(S) ==
  IF S = {} THEN {<< >>}
  ELSE UNION {{<<x>> \o s : s \in Perms(S \ {x})} : x \in S}

\* Table rows: every table at most once, in any fetch order, with any parent.
TableFetches ==
  UNION {{[k \in 1 .. Len(order) |-> TableRow(order[k], par[order[k]])] :
            par \in {f \in [T -> {NoName, "A", "B", "Z"}] :
                       \A t \in T : f[t] \in ParentNames(t)},
            order \in Perms(T)} :
         T \in SUBSET TableNames}

\* Column rows; table "C" has column rows and never a table row.
AllColumns ==
  << ColumnRow("A", "id", 1, "Integer", FALSE),
     ColumnRow("A", "v", 2, "String", TRUE),
     ColumnRow("B", "id", 1, "Integer", FALSE),
     ColumnRow("C", "x", 1, "Boolean", TRUE) >>

IndexRowUniverse ==
  { IndexRow("A", PRIMARY_INDEX, NoName, FALSE, TRUE),
    IndexRow("B", PRIMARY_INDEX, NoName, FALSE, TRUE),
    IndexRow("A", "idx", NoName, TRUE, FALSE),
    IndexRow("B", "idx", "A", FALSE, FALSE) }

IndexColumnUniverse ==
  { IndexColumnRow("A", PRIMARY_INDEX, "id", 1),
    IndexColumnRow("B", PRIMARY_INDEX, "id", 1),
    IndexColumnRow("A", "idx", "v", 1),
    IndexColumnRow("A", "idx", "id", 2),
    IndexColumnRow("A", "idx", "w", None),
    IndexColumnRow("B", "idx", "v", 2),
    IndexColumnRow("B", "idx", "id", 1) }

\* condition.order_by(('ordinal_position', ASC)): the rows come back in
\* ascending ordinal position; rows with no position (NULL) sort first.
OrderedAsc(s) ==
  \A j, k \in 1 .. Len(s) :
    j < k => s[j].ordinal_position <= s[k].ordinal_position

IndexColumnFetchesOf(R) == {s \in Perms(R) : OrderedAsc(s)}

\* --------------------------------------------------------------- the state
VARIABLES
  catalog,     \* the rows behind the four catalog queries (fixed per behaviour)
  _tables,     \* SpannerMetadata._tables: None or the id of a tables mapping
  _indexes,    \* SpannerMetadata._indexes: None or the id of an indexes mapping
  _models,     \* SpannerMetadata._models: None or the id of a models mapping
  fields,      \* heap of field.Field objects
  tableMaps,   \* heap of the mappings built by tables()
  indexMaps,   \* heap of the mappings built by indexes()
  klasses,     \* heap of model classes (their meta) built by models()
  modelMaps,   \* heap of the dicts built by models()
  th,          \* per thread: position in the code and local variables
  out,         \* per thread: how its last finished call ended
  queries,     \* per catalog query: how many times it has been issued
  rets,        \* per accessor: its successful top-level calls so far, and
               \* the mapping the first of them returned
  raised,      \* whether some call has raised
  left         \* top-level calls the callers may still start

vars == << catalog, _tables, _indexes, _models, fields, tableMaps, indexMaps,
           klasses, modelMaps, th, out, queries, rets, raised,
           left >>

heapVars == << fields, tableMaps, indexMaps, klasses, modelMaps >>
cacheVars == << _tables, _indexes, _models >>

QueryKinds == {"columns", "tables", "index_columns", "index_schemas"}
MemoAccessors == {"tables", "indexes", "models"}

\* A thread outside any call; also the value of the locals no call has set.
IdleThread ==
  [pc |-> "idle", top |-> "-", arg |-> "-",
   column_data |-> EmptyMap, table_data |-> None,
   index_columns |-> EmptyMap, storing_columns |-> EmptyMap,
   new_indexes |-> None,
   tables |-> None, indexes |-> None, models |-> EmptyMap, i |-> 0]

\* status: "ok" with the value returned, or "raised" with the exception (why)
\* and, for a failed fetch, the query q and the number n of times it had been
\* issued by then.
NoOutcome == [acc |-> "-", arg |-> "-", status |-> "none", val |-> None,
              why |-> "-", q |-> "-", n |-> 0]

InitRest ==
  /\ _tables = None
  /\ _indexes = None
  /\ _models = None
  /\ fields = << >>
  /\ tableMaps = << >>
  /\ indexMaps = << >>
  /\ klasses = << >>
  /\ modelMaps = << >>
  /\ th = [p \in Procs |-> IdleThread]
  /\ out = [p \in Procs |-> NoOutcome]
  /\ queries = [q \in QueryKinds |-> 0]
  /\ rets = [a \in MemoAccessors |-> [n |-> 0, first |-> None]]
  /\ raised = FALSE

\* Index and index-column rows by variant: every table with its primary
\* index (and a secondary index on A); B without any index row; B with a
\* secondary index only.
IndexVariants == {"full", "B_none", "B_no_primary"}

IndexRowsOf(v) ==
  LET a == << IndexRow("A", PRIMARY_INDEX, NoName, FALSE, TRUE),
              IndexRow("A", "idx", NoName, TRUE, FALSE) >>
  IN IF v = "full"
     THEN << IndexRow("B", PRIMARY_INDEX, NoName, FALSE, TRUE) >> \o a
     ELSE IF v = "B_none" THEN a
     ELSE a \o << IndexRow("B", "idx", "A", FALSE, FALSE) >>

IndexColumnRowsOf(v) ==
  LET a == << IndexColumnRow("A", "idx", "w", None),
              IndexColumnRow("A", PRIMARY_INDEX, "id", 1),
              IndexColumnRow("A", "idx", "v", 1),
              IndexColumnRow("A", "idx", "id", 2) >>
  IN IF v = "full"
     THEN << a[1], IndexColumnRow("B", PRIMARY_INDEX, "id", 1) >>
          \o SubSeq(a, 2, 4)
     ELSE IF v = "B_none" THEN a
     ELSE << a[1], IndexColumnRow("B", "idx", "id", 1) >> \o SubSeq(a, 2, 4)

CatalogOf(tf, v) ==
  [columns |-> AllColumns, tables |-> tf,
   index_columns |-> IndexColumnRowsOf(v), index_schemas |-> IndexRowsOf(v)]

\* Concurrent callers: B interleaved in A, in either fetch order, every table
\* with its primary index.
Init ==
  /\ \E tf \in TableFetches :
       /\ Len(tf) = 2
       /\ \A k \in 1 .. 2 :
            tf[k].parent_table_name =
              (IF tf[k].table_name = "B" THEN "A" ELSE NoName)
       /\ catalog = CatalogOf(tf, "full")
  /\ left = MaxCalls
  /\ InitRest

\* One caller at a time: every table-row fetch with every index variant.
SeqInit ==
  /\ \E tf \in TableFetches, v \in IndexVariants : catalog = CatalogOf(tf, v)
  /\ left = MaxSeqCalls
  /\ InitRest

\* ------------------------------------------------------------ call / return
\* A thread starts a top-level call of accessor acc at program counter pc0.
Start(p, acc, name, pc0) ==
  /\ th[p].pc = "idle"
  /\ left > 0
  /\ left' = left - 1
  /\ th' = [th EXCEPT ![p] = [IdleThread EXCEPT !.pc = pc0, !.top = acc,
                                                !.arg = name]]
  /\ UNCHANGED << catalog, cacheVars, heapVars, out, queries, rets, raised >>

CallTables(p) == Start(p, "tables", "-", "t74")
CallIndexes(p) == Start(p, "indexes", "-", "i100")
CallModels(p) == Start(p, "models", "-", "m38")
CallModel(p, name) == Start(p, "model", name, "m38")

\* The thread goes on inside its call, with its position and locals as in t.
Goto(p, t) ==
  /\ th' = [th EXCEPT ![p] = t]
  /\ UNCHANGED << out, rets, raised >>

\* An exception leaves the call: every frame of the thread is unwound and the
\* caller of the top-level accessor gets the error.
Raised(p, why, q) ==
  /\ th' = [th EXCEPT ![p] = IdleThread]
  /\ out' = [out EXCEPT ![p] = [acc |-> th[p].top, arg |-> th[p].arg,
                                status |-> "raised", val |-> None,
                                why |-> why, q |-> q,
                                n |-> IF q = "-" THEN 0 ELSE queries'[q]]]
  /\ raised' = TRUE
  /\ UNCHANGED rets

\* The top-level call returns v to its caller; m is the mapping the memoized
\* accessor acc returned.
Returned(p, acc, m, v) ==
  /\ th' = [th EXCEPT ![p] = IdleThread]
  /\ out' = [out EXCEPT ![p] = [acc |-> th[p].top, arg |-> th[p].arg,
                                status |-> "ok", val |-> v,
                                why |-> "-", q |-> "-", n |-> 0]]
  /\ rets' = [rets EXCEPT ![acc] =
                [n |-> @.n + 1, first |-> IF @.n = 0 THEN m ELSE @.first]]
  /\ UNCHANGED raised

\* ------------------------------------------------------------------ tables()
\* line 74: if cls._tables is None
TablesCheck(p) ==
  /\ th[p].pc = "t74"
  /\ Goto(p, [th[p] EXCEPT !.pc = IF _tables = None THEN "t76" ELSE "t95"])
  /\ UNCHANGED << catalog, cacheVars, heapVars, queries, left >>

\* NewField without the nullable= argument of line 81: the default, False.
NewFieldDefaultNullable(row) ==
  [name |-> row.column_name, position |-> row.ordinal_position,
   type |-> row.field_type, nullable |-> FALSE,
   primary_key |-> FALSE, length |-> 0, allow_commit_timestamp |-> FALSE]

\* field.Field(field_type, nullable=...) then .name and .position (lines 80-83).
NewField(row) ==
  [name |-> row.column_name, position |-> row.ordinal_position,
   type |-> row.field_type, nullable |-> row.nullable,
   primary_key |-> FALSE, length |-> 0, allow_commit_timestamp |-> FALSE]

\* ColumnData that stores one and the same Field object for every row.
RECURSIVE ColumnDataShared(_, _, _)
ColumnDataShared(rows, base, k) ==
  IF k = 0 THEN EmptyMap
  ELSE LET cd == ColumnDataShared(rows, base, k - 1)
           row == rows[k]
       IN Put(cd, row.table_name,
              Put(GetOr(cd, row.table_name, EmptyMap), row.column_name,
                  base + 1))

\* lines 79-84: column_data[table][column] = new_field, the k-th row's Field
\* being the object base + k.
RECURSIVE ColumnData(_, _, _)
ColumnData(rows, base, k) ==
  IF k = 0 THEN EmptyMap
  ELSE LET cd == ColumnData(rows, base, k - 1)
           row == rows[k]
       IN Put(cd, row.table_name,
              Put(GetOr(cd, row.table_name, EmptyMap), row.column_name,
                  base + k))

\* TablesFetchColumns caching an empty mapping when the column query fails.
TablesFetchColumnsCachesFailure(p) ==
  /\ th[p].pc = "t76"
  /\ queries' = [queries EXCEPT !["columns"] = @ + 1]
  /\ \/ /\ Raised(p, "fetch", "columns")
        /\ tableMaps' = Append(tableMaps, [order |-> << >>, data |-> EmptyMap])
        /\ _tables' = Len(tableMaps) + 1
        /\ UNCHANGED fields
     \/ /\ fields' = fields \o [k \in 1 .. Len(catalog.columns) |->
                                  NewField(catalog.columns[k])]
        /\ Goto(p, [th[p] EXCEPT
                      !.pc = "t87",
                      !.column_data = ColumnData(catalog.columns, Len(fields),
                                                 Len(catalog.columns))])
        /\ UNCHANGED << _tables, tableMaps >>
  /\ UNCHANGED << catalog, _indexes, _models, indexMaps, klasses, modelMaps,
                  left >>

\* lines 75-84: the column query and the per-table field maps.
TablesFetchColumns(p) ==
  /\ th[p].pc = "t76"
  /\ queries' = [queries EXCEPT !["columns"] = @ + 1]
  /\ \/ /\ Raised(p, "fetch", "columns")
        /\ UNCHANGED fields
     \/ /\ fields' = fields \o [k \in 1 .. Len(catalog.columns) |->
                                  NewField(catalog.columns[k])]
        /\ Goto(p, [th[p] EXCEPT
                      !.pc = "t87",
                      !.column_data = ColumnData(catalog.columns, Len(fields),
                                                 Len(catalog.columns))])
  /\ UNCHANGED << catalog, cacheVars, tableMaps, indexMaps, klasses,
                  modelMaps, left >>

\* TableData with line 93 missing: the tables are there, their fields not yet.
RECURSIVE TableDataNoFields(_, _, _)
TableDataNoFields(rows, cd, k) ==
  IF k = 0 THEN EmptyMap
  ELSE Put(TableDataNoFields(rows, cd, k - 1), rows[k].table_name,
           [parent_table |-> rows[k].parent_table_name, fields |-> EmptyMap])

\* lines 90-93: table_data[name] = {parent_table, fields} for every table row.
RECURSIVE TableData(_, _, _)
TableData(rows, cd, k) ==
  IF k = 0 THEN EmptyMap
  ELSE Put(TableData(rows, cd, k - 1), rows[k].table_name,
           [parent_table |-> rows[k].parent_table_name,
            fields |-> GetOr(cd, rows[k].table_name, EmptyMap)])

\* The keys of the mapping in insertion order (the order .items() iterates).
RECURSIVE KeyOrder(_, _)
KeyOrder(rows, k) ==
  IF k = 0 THEN << >>
  ELSE LET before == KeyOrder(rows, k - 1)
       IN IF \E j \in 1 .. Len(before) : before[j] = rows[k].table_name
          THEN before
          ELSE Append(before, rows[k].table_name)

\* lines 86-93: the table query and the result mapping (still a local).
TablesFetchTables(p) ==
  /\ th[p].pc = "t87"
  /\ queries' = [queries EXCEPT !["tables"] = @ + 1]
  /\ \/ /\ Raised(p, "fetch", "tables")
        /\ UNCHANGED tableMaps
     \/ /\ tableMaps' =
             Append(tableMaps,
                    [order |-> KeyOrder(catalog.tables, Len(catalog.tables)),
                     data |-> TableData(catalog.tables, th[p].column_data,
                                        Len(catalog.tables))])
        /\ Goto(p, [th[p] EXCEPT !.pc = "t94",
                                 !.table_data = Len(tableMaps) + 1,
                                 !.column_data = EmptyMap])
  /\ UNCHANGED << catalog, cacheVars, fields, indexMaps, klasses, modelMaps,
                  left >>

\* line 94: cls._tables = table_data
TablesStore(p) ==
  /\ th[p].pc = "t94"
  /\ _tables' = th[p].table_data
  /\ Goto(p, [th[p] EXCEPT !.pc = "t95", !.table_data = None])
  /\ UNCHANGED << catalog, _indexes, _models, heapVars, queries, left >>

\* line 95: return cls._tables, to the caller or to line 39 of models(),
\* which goes on with line 40, indexes().
TablesReturn(p) ==
  /\ th[p].pc = "t95"
  /\ IF th[p].top = "tables"
     THEN Returned(p, "tables", _tables, _tables)
     ELSE Goto(p, [th[p] EXCEPT !.pc = "i100", !.tables = _tables])
  /\ UNCHANGED << catalog, cacheVars, heapVars, queries, left >>

\* ----------------------------------------------------------------- indexes()
\* line 100: if cls._indexes is None
IndexesCheck(p) ==
  /\ th[p].pc = "i100"
  /\ Goto(p, [th[p] EXCEPT !.pc = IF _indexes = None THEN "i104" ELSE "i133"])
  /\ UNCHANGED << catalog, cacheVars, heapVars, queries, left >>

\* ColumnLists without the test of line 113: every row's column goes to both
\* lists.
RECURSIVE ColumnListsNoTest(_, _, _)
ColumnListsNoTest(rows, k, want) ==
  IF k = 0 THEN EmptyMap
  ELSE LET lists == ColumnListsNoTest(rows, k - 1, want)
           schema == rows[k]
           key == << schema.table_name, schema.index_name >>
       IN Put(lists, key,
              Append(GetOr(lists, key, << >>), schema.column_name))

\* lines 111-116 for the first k rows: the lists of the rows with (want = TRUE)
\* or without (want = FALSE) an ordinal position, by (table, index), each in
\* fetch order.
RECURSIVE ColumnLists(_, _, _)
ColumnLists(rows, k, want) ==
  IF k = 0 THEN EmptyMap
  ELSE LET lists == ColumnLists(rows, k - 1, want)
           schema == rows[k]
           key == << schema.table_name, schema.index_name >>
       IN IF (schema.ordinal_position # None) = want
          THEN Put(lists, key,
                   Append(GetOr(lists, key, << >>), schema.column_name))
          ELSE lists

\* lines 104-116: the index-column query and the two column lists.
IndexesFetchIndexColumns(p) ==
  /\ th[p].pc = "i104"
  /\ queries' = [queries EXCEPT !["index_columns"] = @ + 1]
  /\ \/ Raised(p, "fetch", "index_columns")
     \/ Goto(p, [th[p] EXCEPT
                   !.pc = "i118",
                   !.index_columns =
                      ColumnLists(catalog.index_columns,
                                  Len(catalog.index_columns), TRUE),
                   !.storing_columns =
                      ColumnLists(catalog.index_columns,
                                  Len(catalog.index_columns), FALSE)])
  /\ UNCHANGED << catalog, cacheVars, heapVars, left >>

\* lines 124-130: index.Index(columns, name, parent=, null_filtered=, unique=,
\* storing_columns=)
NewIndex(schema, index_columns, storing_columns) ==
  LET key == << schema.table_name, schema.index_name >>
  IN [columns |-> GetOr(index_columns, key, << >>),
      name |-> schema.index_name,
      parent |-> schema.parent_table_name,
      null_filtered |-> schema.is_null_filtered,
      unique |-> schema.is_unique,
      storing_columns |-> GetOr(storing_columns, key, << >>)]

\* lines 121-130: indexes[table][index] = Index(...) for every index row.
RECURSIVE IndexData(_, _, _, _)
IndexData(rows, index_columns, storing_columns, k) ==
  IF k = 0 THEN EmptyMap
  ELSE LET ixs == IndexData(rows, index_columns, storing_columns, k - 1)
           schema == rows[k]
       IN Put(ixs, schema.table_name,
              Put(GetOr(ixs, schema.table_name, EmptyMap), schema.index_name,
                  NewIndex(schema, index_columns, storing_columns)))

\* lines 118-130: the index query and the result mapping (still a local).
IndexesFetchIndexes(p) ==
  /\ th[p].pc = "i118"
  /\ queries' = [queries EXCEPT !["index_schemas"] = @ + 1]
  /\ \/ /\ Raised(p, "fetch", "index_schemas")
        /\ UNCHANGED indexMaps
     \/ /\ indexMaps' =
             Append(indexMaps,
                    IndexData(catalog.index_schemas, th[p].index_columns,
                              th[p].storing_columns,
                              Len(catalog.index_schemas)))
        /\ Goto(p, [th[p] EXCEPT !.pc = "i131",
                                 !.new_indexes = Len(indexMaps) + 1,
                                 !.index_columns = EmptyMap,
                                 !.storing_columns = EmptyMap])
  /\ UNCHANGED << catalog, cacheVars, fields, tableMaps, klasses, modelMaps,
                  left >>

\* line 131: cls._indexes = indexes
IndexesStore(p) ==
  /\ th[p].pc = "i131"
  /\ _indexes' = th[p].new_indexes
  /\ Goto(p, [th[p] EXCEPT !.pc = "i133", !.new_indexes = None])
  /\ UNCHANGED << catalog, _tables, _models, heapVars, queries, left >>

\* line 133: return cls._indexes, to the caller or to line 40 of models(),
\* which goes on with its first loop (line 43) over tables.items().
IndexesReturn(p) ==
  /\ th[p].pc = "i133"
  /\ IF th[p].top = "indexes"
     THEN Returned(p, "indexes", _indexes, _indexes)
     ELSE Goto(p, [th[p] EXCEPT
                     !.pc = IF tableMaps[th[p].tables].order = << >>
                            THEN "m64" ELSE "m43",
                     !.indexes = _indexes,
                     !.i = 1])
  /\ UNCHANGED << catalog, cacheVars, heapVars, queries, left >>

\* ------------------------------------------------------------------ models()
\* ModelsCheck without the test of line 38: every call builds the registry.
ModelsCheckAlways(p) ==
  /\ th[p].pc = "m38"
  /\ Goto(p, [th[p] EXCEPT !.pc = "t74"])
  /\ UNCHANGED << catalog, cacheVars, heapVars, queries, left >>

\* line 38: if cls._models is None; line 39 calls tables().
ModelsCheck(p) ==
  /\ th[p].pc = "m38"
  /\ Goto(p, [th[p] EXCEPT !.pc = IF _models = None THEN "t74" ELSE "m65"])
  /\ UNCHANGED << catalog, cacheVars, heapVars, queries, left >>

\* The elements of a list, the values of a dict.
Range(s) == {s[k] : k \in DOMAIN s}

\* The values of meta.interleaved: None, a table name, a model class.
NoParent == [tag |-> "none", name |-> NoName, ref |-> None]
ParentName(n) == [tag |-> "name", name |-> n, ref |-> None]
ParentRef(k) == [tag |-> "ref", name |-> NoName, ref |-> k]

\* Missing that stores the empty dict under every key of the mapping.
MissingClearsAll(ixs, table_name) ==
  [t \in (DOMAIN ixs) \cup {table_name} |-> EmptyMap]

\* line 44, indexes[table_name] for a table the defaultdict has no key for:
\* the default factory's empty dict is stored under the key.
Missing(ixs, table_name) == Put(ixs, table_name, EmptyMap)

\* SetPrimaryKeys marking every field of the table.
SetPrimaryKeysAll(heap, fmap, primary_keys) ==
  [f \in DOMAIN heap |->
     IF \E c \in DOMAIN fmap : fmap[c] = f
     THEN [heap[f] EXCEPT !.primary_key = TRUE]
     ELSE heap[f]]

\* lines 48-49: field._primary_key = field.name in primary_keys, for the
\* Field objects of the table's field map fmap.
SetPrimaryKeys(heap, fmap, primary_keys) ==
  [f \in DOMAIN heap |->
     IF \E c \in DOMAIN fmap : fmap[c] = f
     THEN [heap[f] EXCEPT !.primary_key = heap[f].name \in primary_keys]
     ELSE heap[f]]

\* lines 51-56: model.Metadata(table=, fields=, interleaved=, indexes=,
\* model_class=); finalized counts the calls of finalize().
NewMetadata(table_name, table_data, table_indexes) ==
  [table |-> table_name,
   fields |-> table_data.fields,
   interleaved |-> IF table_data.parent_table = NoName THEN NoParent
                   ELSE ParentName(table_data.parent_table),
   indexes |-> table_indexes,
   finalized |-> 0]

\* ModelsPass1 that finalizes each descriptor as soon as it is created.
ModelsPass1Eager(p) ==
  /\ th[p].pc = "m43"
  /\ LET tm == tableMaps[th[p].tables]
         table_name == tm.order[th[p].i]
         table_data == tm.data[table_name]
         ixs == indexMaps[th[p].indexes]
         last == th[p].i = Len(tm.order)
     IN IF table_name \notin DOMAIN ixs
        THEN /\ indexMaps' = [indexMaps EXCEPT
                                ![th[p].indexes] = Missing(ixs, table_name)]
             /\ Raised(p, "KeyError", "-")
             /\ UNCHANGED << fields, klasses >>
        ELSE IF PRIMARY_INDEX \notin DOMAIN ixs[table_name]
        THEN /\ Raised(p, "KeyError", "-")
             /\ UNCHANGED << fields, klasses, indexMaps >>
        ELSE /\ fields' =
                  SetPrimaryKeys(fields, table_data.fields,
                                 Range(ixs[table_name][PRIMARY_INDEX].columns))
             /\ klasses' = Append(klasses,
                                  [NewMetadata(table_name, table_data,
                                               ixs[table_name])
                                     EXCEPT !.finalized = @ + 1])
             /\ Goto(p, [th[p] EXCEPT
                           !.models = Put(@, table_name, Len(klasses) + 1),
                           !.pc = IF last THEN "m59" ELSE "m43",
                           !.i = IF last THEN 1 ELSE @ + 1])
             /\ UNCHANGED indexMaps
  /\ UNCHANGED << catalog, cacheVars, tableMaps, modelMaps, queries, left >>

\* lines 43-57, one table per step. indexes is a defaultdict: line 44 adds an
\* empty entry for a table with no index before the lookup of PRIMARY_INDEX
\* raises KeyError.
ModelsPass1(p) ==
  /\ th[p].pc = "m43"
  /\ LET tm == tableMaps[th[p].tables]
         table_name == tm.order[th[p].i]
         table_data == tm.data[table_name]
         ixs == indexMaps[th[p].indexes]
         last == th[p].i = Len(tm.order)
     IN IF table_name \notin DOMAIN ixs
        THEN /\ indexMaps' = [indexMaps EXCEPT
                                ![th[p].indexes] = Missing(ixs, table_name)]
             /\ Raised(p, "KeyError", "-")
             /\ UNCHANGED << fields, klasses >>
        ELSE IF PRIMARY_INDEX \notin DOMAIN ixs[table_name]
        THEN /\ Raised(p, "KeyError", "-")
             /\ UNCHANGED << fields, klasses, indexMaps >>
        ELSE /\ fields' =
                  SetPrimaryKeys(fields, table_data.fields,
                                 Range(ixs[table_name][PRIMARY_INDEX].columns))
             /\ klasses' = Append(klasses,
                                  NewMetadata(table_name, table_data,
                                              ixs[table_name]))
             /\ Goto(p, [th[p] EXCEPT
                           !.models = Put(@, table_name, Len(klasses) + 1),
                           !.pc = IF last THEN "m59" ELSE "m43",
                           !.i = IF last THEN 1 ELSE @ + 1])
             /\ UNCHANGED indexMaps
  /\ UNCHANGED << catalog, cacheVars, tableMaps, modelMaps, queries, left >>

\* Resolve without the assignment of line 61: the name stays.
ResolveKeepsName(meta, models) == meta

\* lines 60-61: a non-empty interleaved name becomes the class registered
\* under that name.
Resolve(meta, models) ==
  IF meta.interleaved.tag # "none"
  THEN [meta EXCEPT !.interleaved = ParentRef(models[meta.interleaved.name])]
  ELSE meta

\* model.Metadata.finalize(), line 62: the descriptor is complete from here.
Finalize(meta) == [meta EXCEPT !.finalized = @ + 1]

\* ModelsPass2 that stores the registry in the cache when finalize() raises.
ModelsPass2Publishes(p) ==
  /\ th[p].pc = "m59"
  /\ LET order == tableMaps[th[p].tables].order
         kid == th[p].models[order[th[p].i]]
         meta == klasses[kid]
         last == th[p].i = Len(order)
     IN IF /\ meta.interleaved.tag # "none"
           /\ meta.interleaved.name \notin DOMAIN th[p].models
        THEN /\ Raised(p, "KeyError", "-")
             /\ UNCHANGED << klasses, cacheVars, modelMaps >>
        ELSE \/ /\ klasses' = [klasses EXCEPT
                                 ![kid] = Resolve(meta, th[p].models)]
                /\ Raised(p, "finalize", "-")
                /\ modelMaps' = Append(modelMaps, th[p].models)
                /\ _models' = Len(modelMaps) + 1
                /\ UNCHANGED << _tables, _indexes >>
             \/ /\ klasses' = [klasses EXCEPT
                                 ![kid] = Finalize(Resolve(meta,
                                                           th[p].models))]
                /\ Goto(p, [th[p] EXCEPT !.pc = IF last THEN "m64" ELSE "m59",
                                         !.i = @ + 1])
                /\ UNCHANGED << cacheVars, modelMaps >>
  /\ UNCHANGED << catalog, fields, tableMaps, indexMaps, queries, left >>

\* ModelsPass2 that leaves the name of an unknown parent in place and goes on.
ModelsPass2SkipsUnknownParent(p) ==
  /\ th[p].pc = "m59"
  /\ LET order == tableMaps[th[p].tables].order
         kid == th[p].models[order[th[p].i]]
         meta == klasses[kid]
         last == th[p].i = Len(order)
     IN IF /\ meta.interleaved.tag # "none"
           /\ meta.interleaved.name \notin DOMAIN th[p].models
        THEN /\ klasses' = [klasses EXCEPT ![kid] = Finalize(meta)]
             /\ Goto(p, [th[p] EXCEPT !.pc = IF last THEN "m64" ELSE "m59",
                                      !.i = @ + 1])
             /\ UNCHANGED << cacheVars, modelMaps >>
        ELSE \/ /\ klasses' = [klasses EXCEPT
                                 ![kid] = Resolve(meta, th[p].models)]
                /\ Raised(p, "finalize", "-")
                /\ UNCHANGED << cacheVars, modelMaps >>
             \/ /\ klasses' = [klasses EXCEPT
                                 ![kid] = Finalize(Resolve(meta,
                                                           th[p].models))]
                /\ Goto(p, [th[p] EXCEPT !.pc = IF last THEN "m64" ELSE "m59",
                                         !.i = @ + 1])
                /\ UNCHANGED << cacheVars, modelMaps >>
  /\ UNCHANGED << catalog, fields, tableMaps, indexMaps, queries, left >>

\* lines 59-62, one model per step, in the order of models.values(). The
\* lookup of an unknown parent raises KeyError; finalize() may raise.
ModelsPass2(p) ==
  /\ th[p].pc = "m59"
  /\ LET order == tableMaps[th[p].tables].order
         kid == th[p].models[order[th[p].i]]
         meta == klasses[kid]
         last == th[p].i = Len(order)
     IN IF /\ meta.interleaved.tag # "none"
           /\ meta.interleaved.name \notin DOMAIN th[p].models
        THEN /\ Raised(p, "KeyError", "-")
             /\ UNCHANGED << klasses, cacheVars, modelMaps >>
        ELSE \/ /\ klasses' = [klasses EXCEPT
                                 ![kid] = Resolve(meta, th[p].models)]
                /\ Raised(p, "finalize", "-")
                /\ UNCHANGED << cacheVars, modelMaps >>
             \/ /\ klasses' = [klasses EXCEPT
                                 ![kid] = Finalize(Resolve(meta,
                                                           th[p].models))]
                /\ Goto(p, [th[p] EXCEPT !.pc = IF last THEN "m64" ELSE "m59",
                                         !.i = @ + 1])
                /\ UNCHANGED << cacheVars, modelMaps >>
  /\ UNCHANGED << catalog, fields, tableMaps, indexMaps, queries, left >>

\* line 64: cls._models = models
ModelsStore(p) ==
  /\ th[p].pc = "m64"
  /\ modelMaps' = Append(modelMaps, th[p].models)
  /\ _models' = Len(modelMaps) + 1
  /\ Goto(p, [th[p] EXCEPT !.pc = "m65", !.models = EmptyMap])
  /\ UNCHANGED << catalog, _tables, _indexes, fields, tableMaps, indexMaps,
                  klasses, queries, left >>

\* ModelsReturn with models()[table_name] in place of .get(table_name): an
\* unknown name raises KeyError.
ModelsReturnSubscript(p) ==
  /\ th[p].pc = "m65"
  /\ IF th[p].top = "models"
     THEN Returned(p, "models", _models, _models)
     ELSE IF th[p].arg \in DOMAIN modelMaps[_models]
     THEN Returned(p, "models", _models, modelMaps[_models][th[p].arg])
     ELSE Raised(p, "KeyError", "-")
  /\ UNCHANGED << catalog, cacheVars, heapVars, queries, left >>

\* line 65: return cls._models; line 69: cls.models().get(table_name)
ModelsReturn(p) ==
  /\ th[p].pc = "m65"
  /\ IF th[p].top = "models"
     THEN Returned(p, "models", _models, _models)
     ELSE Returned(p, "models", _models,
                   GetOr(modelMaps[_models], th[p].arg, None))
  /\ UNCHANGED << catalog, cacheVars, heapVars, queries, left >>

\* ------------------------------------------------------------------ field.py
\* A Python str is the sequence of its characters, so that slicing, prefix
\* tests, replace and concatenation work on it as they do in the source.

S_BOOL ==
  << "B", "O", "O", "L" >>

S_INT64 ==
  << "I", "N", "T", "6", "4" >>

S_FLOAT64 ==
  << "F", "L", "O", "A", "T", "6", "4" >>

S_STRING_MAX ==
  << "S", "T", "R", "I", "N", "G", "(", "M", "A", "X", ")" >>

S_ARRAY_STRING_MAX ==
  << "A", "R", "R", "A", "Y", "<", "S", "T", "R", "I", "N", "G", "(", "M",
    "A", "X", ")", ">" >>

S_ARRAY_INT64 ==
  << "A", "R", "R", "A", "Y", "<", "I", "N", "T", "6", "4", ">" >>

S_TIMESTAMP ==
  << "T", "I", "M", "E", "S", "T", "A", "M", "P" >>

S_BYTES_MAX ==
  << "B", "Y", "T", "E", "S", "(", "M", "A", "X", ")" >>

S_MAX ==
  << "(", "M", "A", "X", ")" >>

S_NOT_NULL ==
  << " ", "N", "O", "T", " ", "N", "U", "L", "L" >>

S_OPTIONS ==
  << " ", "O", "P", "T", "I", "O", "N", "S", " ", "(", "a", "l", "l", "o",
    "w", "_", "c", "o", "m", "m", "i", "t", "_", "t", "i", "m", "e", "s",
    "t", "a", "m", "p", "=", "t", "r", "u", "e", ")" >>

S_STRING_OPEN ==
  << "S", "T", "R", "I", "N", "G", "(" >>

S_ARRAY_STRING_OPEN ==
  << "A", "R", "R", "A", "Y", "<", "S", "T", "R", "I", "N", "G", "(" >>

S_CLOSE_ARRAY ==
  << ")", ">" >>

S_BYTES_OPEN ==
  << "B", "Y", "T", "E", "S", "(" >>

\* s[a:b] for 0 <= a <= b
Slice(s, a, b) == SubSeq(s, a + 1, IF b < Len(s) THEN b ELSE Len(s))

\* s.startswith(prefix)
startswith(s, prefix) ==
  Len(s) >= Len(prefix) /\ SubSeq(s, 1, Len(prefix)) = prefix

\* s.replace(old, new): every occurrence of old, from the left (old not empty).
RECURSIVE replace(_, _, _)
replace(s, old, new) ==
  IF Len(s) < Len(old) THEN s
  ELSE IF startswith(s, old)
  THEN new \o replace(SubSeq(s, Len(old) + 1, Len(s)), old, new)
  ELSE << Head(s) >> \o replace(Tail(s), old, new)

Digits == << "0", "1", "2", "3", "4", "5", "6", "7", "8", "9" >>

\* The decimal digits of n >= 0, as the f-string of line 92 formats a length.
RECURSIVE str(_)
str(n) ==
  IF n < 10 THEN << Digits[n + 1] >>
  ELSE str(n \div 10) \o << Digits[(n % 10) + 1] >>

\* field.ALL_TYPES (lines 363-372), in declared order.
ALL_TYPES ==
  << "Boolean", "Integer", "IntArray", "Float", "String", "StringArray",
     "Timestamp", "BytesBase64" >>

\* FieldType.ddl() of each type
ddl(t) ==
  CASE t = "Boolean" -> S_BOOL
    [] t = "Integer" -> S_INT64
    [] t = "IntArray" -> S_ARRAY_INT64
    [] t = "Float" -> S_FLOAT64
    [] t = "String" -> S_STRING_MAX
    [] t = "StringArray" -> S_ARRAY_STRING_MAX
    [] t = "Timestamp" -> S_TIMESTAMP
    [] t = "BytesBase64" -> S_BYTES_MAX

\* Boolean.matches, line 137
Boolean_matches(type) == type = S_BOOL

\* Integer.matches, line 166
Integer_matches(type) == type = S_INT64

\* Float.matches, line 195
Float_matches(type) == type = S_FLOAT64

\* String.matches accepting the canonical DDL string only.
String_matchesCanonical(type) == type = S_STRING_MAX

\* String.matches, line 224: type[0:7] == 'STRING(' and type[-1] == ')'.
\* `and` evaluates its right operand only when the left one holds, as /\ does.
String_matches(type) ==
  Slice(type, 0, 7) = S_STRING_OPEN /\ type[Len(type)] = ")"

\* StringArray.matches, line 256
StringArray_matches(type) ==
  /\ Slice(type, 0, 13) = S_ARRAY_STRING_OPEN
  /\ SubSeq(type, Len(type) - 1, Len(type)) = S_CLOSE_ARRAY

\* IntArray.matches, line 288
IntArray_matches(type) == type = S_ARRAY_INT64

\* Timestamp.matches, line 317
Timestamp_matches(type) == startswith(type, S_TIMESTAMP)

\* BytesBase64.matches testing the first character only.
BytesBase64_matchesFirstChar(type) == Slice(type, 0, 1) = << "B" >>

\* BytesBase64.matches, line 352
BytesBase64_matches(type) ==
  Slice(type, 0, 6) = S_BYTES_OPEN /\ type[Len(type)] = ")"

\* t.matches(type) for a type t of ALL_TYPES
matches(t, type) ==
  CASE t = "Boolean" -> Boolean_matches(type)
    [] t = "Integer" -> Integer_matches(type)
    [] t = "IntArray" -> IntArray_matches(type)
    [] t = "Float" -> Float_matches(type)
    [] t = "String" -> String_matches(type)
    [] t = "StringArray" -> StringArray_matches(type)
    [] t = "Timestamp" -> Timestamp_matches(type)
    [] t = "BytesBase64" -> BytesBase64_matches(type)

support_length(t) == t \in {"String", "StringArray", "BytesBase64"}

support_commit_timestamp(t) == t = "Timestamp"

\* Python values by class. items holds the classes of a list's elements;
\* b64 tells whether base64.b64decode(value, validate=True) accepts a bytes.
PyValue(class, items, b64) == [class |-> class, items |-> items, b64 |-> b64]

PyNone == PyValue("NoneType", << >>, FALSE)

PyValues ==
  {PyNone} \cup
  {PyValue(c, << >>, FALSE) : c \in {"bool", "int", "float", "str", "datetime"}}
  \cup {PyValue("bytes", << >>, b) : b \in BOOLEAN}
  \cup {PyValue("list", its, FALSE) :
          its \in {<< >>, << "str" >>, << "int" >>, << "str", "int" >>,
                   << "bool" >>}}

\* isinstance(value, cls): bool is a subclass of int.
isinstance(class, cls) == class = cls \/ (class = "bool" /\ cls = "int")

\* FieldType.validate_type(value) of each type: TRUE when it returns, FALSE
\* when it raises ValidationError.
validate_type(t, value) ==
  CASE t = "Boolean" -> isinstance(value.class, "bool")
    [] t = "Integer" -> isinstance(value.class, "int")
    [] t = "Float" ->
         isinstance(value.class, "int") \/ isinstance(value.class, "float")
    [] t = "String" -> isinstance(value.class, "str")
    [] t = "StringArray" ->
         /\ isinstance(value.class, "list")
         /\ \A k \in DOMAIN value.items : isinstance(value.items[k], "str")
    [] t = "IntArray" ->
         /\ isinstance(value.class, "list")
         /\ \A k \in DOMAIN value.items : isinstance(value.items[k], "int")
    [] t = "Timestamp" -> isinstance(value.class, "datetime")
    [] t = "BytesBase64" -> isinstance(value.class, "bytes") /\ value.b64

\* Field.__init__, lines 68-73: the attributes (position is set by tables()).
Field(field_type, nullable, primary_key, length, allow_commit_timestamp) ==
  [name |-> NoName, position |-> None, type |-> field_type,
   nullable |-> nullable, primary_key |-> primary_key, length |-> length,
   allow_commit_timestamp |-> allow_commit_timestamp]

\* FieldRaises without the test of lines 82-83.
FieldRaisesNoTimestampTest(field_type, length, allow_commit_timestamp) ==
  \/ length < 0
  \/ ~support_length(field_type) /\ length # 0

\* Field.__init__, lines 75-86: whether the constructor raises ValidationError.
FieldRaises(field_type, length, allow_commit_timestamp) ==
  \/ length < 0
  \/ ~support_length(field_type) /\ length # 0
  \/ ~support_commit_timestamp(field_type) /\ allow_commit_timestamp

\* Field_ddl with the options clause before the nullability keyword.
Field_ddlOptionsFirst(f) ==
  LET base_ddl == IF f.length # 0
                  THEN replace(ddl(f.type), S_MAX,
                               << "(" >> \o str(f.length) \o << ")" >>)
                  ELSE ddl(f.type)
      options == IF f.allow_commit_timestamp THEN S_OPTIONS ELSE << >>
  IN IF f.nullable THEN base_ddl \o options
     ELSE base_ddl \o options \o S_NOT_NULL

\* Field.ddl(), lines 88-97
Field_ddl(f) ==
  LET base_ddl == IF f.length # 0
                  THEN replace(ddl(f.type), S_MAX,
                               << "(" >> \o str(f.length) \o << ")" >>)
                  ELSE ddl(f.type)
      options == IF f.allow_commit_timestamp THEN S_OPTIONS ELSE << >>
  IN IF f.nullable THEN base_ddl \o options
     ELSE base_ddl \o S_NOT_NULL \o options

\* Field_validate that takes every value other than None as valid.
Field_validatePresentValid(f, value) ==
  IF value = PyNone THEN f.nullable
  ELSE TRUE

\* Field.validate(value), lines 111-116: TRUE when it returns, FALSE when it
\* raises ValidationError.
Field_validate(f, value) ==
  IF value = PyNone THEN f.nullable
  ELSE validate_type(f.type, value)

\* Resolution of a catalog type string: the first type of ALL_TYPES, in
\* declared order, whose matches accepts it; NoName when none does.
field_type(type) ==
  LET hits == {k \in DOMAIN ALL_TYPES : matches(ALL_TYPES[k], type)}
  IN IF hits = {} THEN NoName
     ELSE ALL_TYPES[CHOOSE k \in hits : \A j \in hits : k <= j]

\* ------------------------------------------------------------ specifications
LookupNames == {"A", "Q"}      \* a reflected and an unknown table name

Step(p) ==
  \/ CallTables(p)
  \/ CallIndexes(p)
  \/ CallModels(p)
  \/ \E name \in LookupNames : CallModel(p, name)
  \/ TablesCheck(p)
  \/ TablesFetchColumns(p)
  \/ TablesFetchTables(p)
  \/ TablesStore(p)
  \/ TablesReturn(p)
  \/ IndexesCheck(p)
  \/ IndexesFetchIndexColumns(p)
  \/ IndexesFetchIndexes(p)
  \/ IndexesStore(p)
  \/ IndexesReturn(p)
  \/ ModelsCheck(p)
  \/ ModelsPass1(p)
  \/ ModelsPass2(p)
  \/ ModelsStore(p)
  \/ ModelsReturn(p)

\* Any number of callers at once.
Next == \E p \in Procs : Step(p)

Spec == Init /\ [][Next]_vars

\* A single caller: every call returns or raises before the next one starts.
SeqNext == Step(1)

SeqSpec == SeqInit /\ [][SeqNext]_vars

\* indexes() alone, by a single caller, over every choice of at most
\* MaxIndexRows index rows and MaxIndexColumnRows index-column rows, the
\* latter in any order the ascending ordinal position allows.
IdxInit ==
  /\ \E IR \in SUBSET IndexRowUniverse, CR \in SUBSET IndexColumnUniverse :
       /\ Cardinality(IR) <= MaxIndexRows
       /\ Cardinality(CR) <= MaxIndexColumnRows
       /\ \E ixs \in Perms(IR), ics \in IndexColumnFetchesOf(CR) :
            catalog = [columns |-> AllColumns,
                       tables |-> << TableRow("A", NoName) >>,
                       index_columns |-> ics, index_schemas |-> ixs]
  /\ left = 1
  /\ InitRest

IdxNext ==
  \/ CallIndexes(1)
  \/ IndexesCheck(1)
  \/ IndexesFetchIndexColumns(1)
  \/ IndexesFetchIndexes(1)
  \/ IndexesStore(1)
  \/ IndexesReturn(1)

IdxSpec == IdxInit /\ [][IdxNext]_vars

\* Field objects on their own: a single caller constructs Fields and calls
\* ddl() and validate() on them. Each operation is one step: it touches no
\* shared state but the object itself.
LengthValues == (-1 .. MaxLength) \cup {36}

Outcome(acc, arg, status, val, why) ==
  [acc |-> acc, arg |-> arg, status |-> status, val |-> val, why |-> why,
   q |-> "-", n |-> 0]

\* One more operation of the caller, outside the accessors.
FieldFrame ==
  /\ left > 0
  /\ left' = left - 1
  /\ UNCHANGED << catalog, cacheVars, tableMaps, indexMaps, klasses,
                  modelMaps, th, queries, rets >>

\* field.Field(field_type, nullable=, length=, allow_commit_timestamp=)
FieldConstruct ==
  /\ FieldFrame
  /\ \E ft \in Range(ALL_TYPES), nullable \in BOOLEAN,
        length \in LengthValues, act \in BOOLEAN :
       LET args == [field_type |-> ft, nullable |-> nullable,
                    length |-> length, allow_commit_timestamp |-> act]
       IN IF FieldRaises(ft, length, act)
          THEN /\ out' = [out EXCEPT ![1] = Outcome("Field", args, "raised",
                                                    None, "ValidationError")]
               /\ raised' = TRUE
               /\ UNCHANGED fields
          ELSE /\ fields' = Append(fields,
                                   Field(ft, nullable, FALSE, length, act))
               /\ out' = [out EXCEPT ![1] = Outcome("Field", args, "ok",
                                                    Len(fields) + 1, "-")]
               /\ UNCHANGED raised

\* f.ddl() for an existing Field f
FieldDdl ==
  /\ FieldFrame
  /\ \E f \in DOMAIN fields :
       out' = [out EXCEPT ![1] = Outcome("ddl", f, "ok",
                                         Field_ddl(fields[f]), "-")]
  /\ UNCHANGED << fields, raised >>

\* f.validate(value) for an existing Field f
FieldValidate ==
  /\ FieldFrame
  /\ \E f \in DOMAIN fields, value \in PyValues :
       IF Field_validate(fields[f], value)
       THEN /\ out' = [out EXCEPT ![1] = Outcome("validate",
                                                 [f |-> f, value |-> value],
                                                 "ok", None, "-")]
            /\ UNCHANGED raised
       ELSE /\ out' = [out EXCEPT ![1] = Outcome("validate",
                                                 [f |-> f, value |-> value],
                                                 "raised", None,
                                                 "ValidationError")]
            /\ raised' = TRUE
  /\ UNCHANGED fields

EmptyCatalog ==
  [columns |-> << >>, tables |-> << >>, index_columns |-> << >>,
   index_schemas |-> << >>]

FieldsInit ==
  /\ catalog = EmptyCatalog
  /\ left = MaxFieldCalls
  /\ InitRest

FieldsNext == FieldConstruct \/ FieldDdl \/ FieldValidate

FieldSpec == FieldsInit /\ [][FieldsNext]_vars

\* Type strings: a canonical DDL string, whole or cut before its parameter,
\* then nothing, MAX or a length, then any closing.
TypeHeads ==
  {<< >>, S_BOOL, S_INT64, S_FLOAT64, S_ARRAY_INT64, S_TIMESTAMP,
   S_STRING_OPEN, S_ARRAY_STRING_OPEN, S_BYTES_OPEN,
   Slice(S_STRING_OPEN, 0, 6), Slice(S_ARRAY_STRING_OPEN, 0, 6)}

TypeParameters ==
  {<< >>, SubSeq(S_MAX, 2, 4)} \cup {str(n) : n \in LengthValues \ {-1, 0}}

TypeTails == {<< >>, << ")" >>, S_CLOSE_ARRAY, << ">" >>}

TypeStrings ==
  {h \o x \o t : h \in TypeHeads, x \in TypeParameters, t \in TypeTails}

\* The type of a column whose catalog type string is type.
ResolveType ==
  /\ FieldFrame
  /\ \E type \in TypeStrings :
       LET found == field_type(type)
       IN IF found = NoName
          THEN /\ out' = [out EXCEPT ![1] = Outcome("field_type", type,
                                                    "raised", NoName,
                                                    "unmatched")]
               /\ raised' = TRUE
          ELSE /\ out' = [out EXCEPT ![1] = Outcome("field_type", type, "ok",
                                                    found, "-")]
               /\ UNCHANGED raised
  /\ UNCHANGED fields

TypeNext == ResolveType

TypeSpec == FieldsInit /\ [][TypeNext]_vars

\* ------------------------------------------------------- what the rows say
TableRowNames == {catalog.tables[k].table_name : k \in DOMAIN catalog.tables}

\* The parent the table row of t declares (NoName when it declares none).
DeclaredParent(t) ==
  LET k == CHOOSE k \in DOMAIN catalog.tables :
             catalog.tables[k].table_name = t
  IN catalog.tables[k].parent_table_name

ColumnNamesOf(t) ==
  {catalog.columns[k].column_name :
     k \in {j \in DOMAIN catalog.columns : catalog.columns[j].table_name = t}}

IndexPairs ==
  {<< catalog.index_schemas[k].table_name, catalog.index_schemas[k].index_name >> :
     k \in DOMAIN catalog.index_schemas}

\* The index-column rows of the index i of table t, with (keyed = TRUE) or
\* without an ordinal position.
IndexColumnRowsFor(t, i, keyed) ==
  {r \in Range(catalog.index_columns) :
     /\ r.table_name = t
     /\ r.index_name = i
     /\ (r.ordinal_position # None) = keyed}

ColumnNames(R) == {r.column_name : r \in R}

\* The mapping id, built by tables(), holds every table with all its fields.
CompleteTables(id) ==
  LET m == tableMaps[id]
  IN /\ DOMAIN m.data = TableRowNames
     /\ Range(m.order) = TableRowNames
     /\ \A t \in DOMAIN m.data :
          /\ m.data[t].parent_table = DeclaredParent(t)
          /\ DOMAIN m.data[t].fields = ColumnNamesOf(t)
          /\ \A c \in DOMAIN m.data[t].fields :
               /\ m.data[t].fields[c] \in DOMAIN fields
               /\ fields[m.data[t].fields[c]].name = c

\* The mapping id, built by indexes(), holds every index with all its key
\* and storing columns.
CompleteIndexes(id) ==
  LET m == indexMaps[id]
  IN \A pair \in IndexPairs :
       /\ pair[1] \in DOMAIN m
       /\ pair[2] \in DOMAIN m[pair[1]]
       /\ Range(m[pair[1]][pair[2]].columns) =
            ColumnNames(IndexColumnRowsFor(pair[1], pair[2], TRUE))
       /\ Range(m[pair[1]][pair[2]].storing_columns) =
            ColumnNames(IndexColumnRowsFor(pair[1], pair[2], FALSE))

\* The registry id, built by models(), holds one finished descriptor per table.
CompleteModels(id) ==
  LET m == modelMaps[id]
  IN /\ DOMAIN m = TableRowNames
     /\ \A t \in DOMAIN m :
          LET meta == klasses[m[t]]
          IN /\ meta.table = t
             /\ meta.finalized = 1
             /\ meta.interleaved.tag \in {"none", "ref"}
             /\ meta.interleaved.tag = "ref" =>
                  \E u \in DOMAIN m : m[u] = meta.interleaved.ref
             /\ DOMAIN meta.fields = ColumnNamesOf(t)
             /\ \A c \in DOMAIN meta.fields :
                  fields[meta.fields[c]].primary_key =
                    (c \in ColumnNames(IndexColumnRowsFor(t, PRIMARY_INDEX,
                                                          TRUE)))

\* ------------------------------------------------------------------- claims
\* C1: when callers invoke a not-yet-computed accessor concurrently, the
\* catalog fetch behind it is performed only once: as long as no call has
\* raised, each of the four catalog queries has been issued at most one time.
C1_FetchedOnce == ~raised => \A q \in QueryKinds : queries[q] <= 1

\* C2: under any interleaving of calls of tables(), indexes() and models(), no
\* caller observes a partially populated cache: the mapping a caller has
\* obtained, the mapping models() got from tables() or indexes(), and the
\* mapping a cache slot holds are complete.
C2_NoPartialCache ==
  /\ \A p \in Procs :
       /\ out[p].status = "ok" /\ out[p].acc = "tables" =>
            CompleteTables(out[p].val)
       /\ out[p].status = "ok" /\ out[p].acc = "indexes" =>
            CompleteIndexes(out[p].val)
       /\ out[p].status = "ok" /\ out[p].acc = "models" =>
            CompleteModels(out[p].val)
       /\ th[p].tables # None => CompleteTables(th[p].tables)
       /\ th[p].indexes # None => CompleteIndexes(th[p].indexes)
  /\ _tables # None => CompleteTables(_tables)
  /\ _indexes # None => CompleteIndexes(_indexes)
  /\ _models # None => CompleteModels(_models)

\* Two overlapping calls of models() that both built a registry: the first
\* has its result while the second is still in its first pass.
C2_Witness ==
  /\ out[1].status = "ok"
  /\ out[1].acc = "models"
  /\ th[2].top = "models"
  /\ th[2].pc = "m43"
  /\ th[2].i = 2
  /\ queries["tables"] = 2

\* C3: in a sequence of successful calls by one caller, every catalog query is
\* executed at most once, and every call of an accessor returns the mapping
\* its first call returned (model(name) looks its name up in that mapping).
C3_FetchOnFirstCallOnly ==
  ~raised =>
    /\ \A q \in QueryKinds : queries[q] <= 1
    /\ out[1].status = "ok" /\ out[1].acc \in MemoAccessors =>
         out[1].val = rets[out[1].acc].first
    /\ out[1].status = "ok" /\ out[1].acc = "model" =>
         out[1].val = GetOr(modelMaps[rets["models"].first], out[1].arg, None)

\* The third successful call in a row, a repeated models(), has returned.
C3_Witness ==
  /\ ~raised
  /\ left = 0
  /\ th[1].pc = "idle"
  /\ out[1].status = "ok"
  /\ out[1].acc = "models"
  /\ rets["models"].n >= 2
  /\ rets["tables"].n >= 1
  /\ \A q \in QueryKinds : queries[q] = 1

CacheOf(acc) ==
  IF acc = "tables" THEN _tables
  ELSE IF acc = "indexes" THEN _indexes
  ELSE _models

\* The accessor that issues the query q.
Owner(q) == IF q \in {"columns", "tables"} THEN "tables" ELSE "indexes"

\* The caller's last call failed in a catalog fetch, and no call is running.
FetchFailed == /\ th[1].pc = "idle"
               /\ out[1].status = "raised"
               /\ out[1].why = "fetch"

\* The step ends a call.
Ends == th[1].pc # "idle" /\ th'[1].pc = "idle"

\* C4: when a catalog fetch fails the caller gets the failure, the cache of
\* the accessor called and of the accessor that fetched stay None, and the
\* next call of the accessor called issues the failed query again (or fails in
\* an earlier fetch): it returns no cached failure.
C4_FailedFetchNotCached ==
  /\ [](FetchFailed =>
          /\ CacheOf(out[1].acc) = None
          /\ CacheOf(Owner(out[1].q)) = None)
  /\ [][(/\ Ends
         /\ out[1].status = "raised"
         /\ out[1].why = "fetch"
         /\ th[1].top = out[1].acc) =>
          \/ queries'[out[1].q] > out[1].n
          \/ out'[1].status = "raised" /\ out'[1].why = "fetch"]_vars

\* tables() has returned its mapping after an earlier call failed in the
\* column query: the query went out twice.
C4_Witness ==
  /\ raised
  /\ th[1].pc = "idle"
  /\ out[1].status = "ok"
  /\ out[1].acc = "tables"
  /\ queries["columns"] = 2
  /\ queries["tables"] = 1

\* The caller's last call was models() and raised, and no call is running.
ModelsFailed == /\ th[1].pc = "idle"
                /\ out[1].status = "raised"
                /\ out[1].acc = "models"

\* C5, as claimed: whenever models() raises, none of the caches _tables,
\* _indexes, _models holds a result afterwards (so that the next call re-runs
\* every catalog query).
C5_FailedBuildEmptiesCaches ==
  ModelsFailed => _tables = None /\ _indexes = None /\ _models = None

\* C5, amended: whenever models() raises, _models holds no result afterwards;
\* the mappings of the accessors that had succeeded stay cached (_tables after
\* a failed index fetch, _tables and _indexes after a KeyError or a finalize
\* failure), no step replaces or clears a cached mapping, and no catalog
\* query of an accessor whose cache is set is issued again.
C5_FailedBuildKeepsSubCaches ==
  /\ [](ModelsFailed =>
          /\ _models = None
          /\ out[1].why = "fetch" => CacheOf(Owner(out[1].q)) = None
          /\ out[1].why = "fetch" /\ Owner(out[1].q) = "indexes" =>
               _tables # None
          /\ out[1].why # "fetch" => _tables # None /\ _indexes # None)
  /\ [][/\ _tables # None =>
             /\ _tables' = _tables
             /\ queries'["columns"] = queries["columns"]
             /\ queries'["tables"] = queries["tables"]
        /\ _indexes # None =>
             /\ _indexes' = _indexes
             /\ queries'["index_columns"] = queries["index_columns"]
             /\ queries'["index_schemas"] = queries["index_schemas"]]_vars

\* models() has failed in the index query for the second time, on the
\* tables mapping fetched once.
C5_Witness ==
  /\ ModelsFailed
  /\ out[1].why = "fetch"
  /\ out[1].q = "index_schemas"
  /\ out[1].n = 2
  /\ queries["columns"] = 1
  /\ rets["indexes"].n = 0
  /\ _tables # None

\* The Field objects of the tables mapping id.
FieldsOf(id) ==
  UNION {Range(tableMaps[id].data[t].fields) : t \in DOMAIN tableMaps[id].data}

\* C6, as claimed: once tables() or indexes() has returned its mapping, no
\* step adds or removes a key of it or changes an attribute of a Field or
\* Index reachable from it.
C6_CachedStructuresReadOnly ==
  [][/\ rets["tables"].n > 0 =>
          /\ tableMaps'[rets["tables"].first] = tableMaps[rets["tables"].first]
          /\ \A f \in FieldsOf(rets["tables"].first) : fields'[f] = fields[f]
     /\ rets["indexes"].n > 0 =>
          indexMaps'[rets["indexes"].first] = indexMaps[rets["indexes"].first]
    ]_vars

\* C6, amended: once tables() or indexes() has returned its mapping, no step
\* removes a key of it, changes a table's parent or field map, changes an
\* attribute of a Field other than primary_key, or changes an Index; pass 1 of
\* models() assigns primary_key, and adds an empty entry to the indexes
\* mapping for a table that has no index.
C6_OnlyPrimaryKeyAndEmptyEntries ==
  [][/\ rets["tables"].n > 0 =>
          /\ tableMaps'[rets["tables"].first] = tableMaps[rets["tables"].first]
          /\ \A f \in FieldsOf(rets["tables"].first) :
               [fields'[f] EXCEPT !.primary_key = fields[f].primary_key]
                 = fields[f]
     /\ rets["indexes"].n > 0 =>
          LET old == indexMaps[rets["indexes"].first]
              new == indexMaps'[rets["indexes"].first]
          IN /\ DOMAIN old \subseteq DOMAIN new
             /\ \A t \in DOMAIN old : new[t] = old[t]
             /\ \A t \in DOMAIN new \ DOMAIN old : new[t] = EmptyMap
    ]_vars

\* After tables() and indexes() have returned, models() has set a primary_key
\* in the tables mapping and left an empty entry in the indexes mapping.
C6_Witness ==
  /\ rets["tables"].n > 0
  /\ rets["indexes"].n > 0
  /\ ModelsFailed
  /\ \E f \in FieldsOf(rets["tables"].first) : fields[f].primary_key
  /\ \E t \in DOMAIN indexMaps[rets["indexes"].first] :
       indexMaps[rets["indexes"].first][t] = EmptyMap

\* C7: after a successful models(), the interleaved value of a table whose
\* declared parent is a table of the catalog is the class registered for the
\* parent, whichever row was fetched first; it stays empty for a table that
\* declares no parent.
C7_InterleavedIsParentClass ==
  _models # None =>
    LET m == modelMaps[_models]
    IN \A t \in DOMAIN m :
         /\ DeclaredParent(t) \in TableRowNames =>
              klasses[m[t]].interleaved = ParentRef(m[DeclaredParent(t)])
         /\ DeclaredParent(t) = NoName =>
              klasses[m[t]].interleaved = NoParent

\* The registry is cached for a catalog whose first table row is the child and
\* whose second is its parent.
C7_Witness ==
  /\ _models # None
  /\ Len(catalog.tables) = 2
  /\ catalog.tables[1].parent_table_name = catalog.tables[2].table_name
  /\ catalog.tables[2].parent_table_name = NoName
  /\ klasses[modelMaps[_models][catalog.tables[1].table_name]].interleaved.ref
       = modelMaps[_models][catalog.tables[2].table_name]

\* C8: after a successful models(), a field of a table's descriptor is a
\* primary key exactly when its name is a key column of the table's index
\* named PRIMARY_INDEX.
C8_PrimaryKeyIffInPrimaryIndex ==
  _models # None =>
    \A t \in DOMAIN modelMaps[_models] :
      LET meta == klasses[modelMaps[_models][t]]
      IN \A c \in DOMAIN meta.fields :
           /\ fields[meta.fields[c]].name = c
           /\ fields[meta.fields[c]].primary_key =
                (c \in Range(indexMaps[_indexes][t][PRIMARY_INDEX].columns))

\* The registry is cached and table A has its key column id marked and its
\* column v not.
C8_Witness ==
  /\ _models # None
  /\ "A" \in DOMAIN modelMaps[_models]
  /\ LET meta == klasses[modelMaps[_models]["A"]]
     IN /\ DOMAIN meta.fields = {"id", "v"}
        /\ fields[meta.fields["id"]].primary_key
        /\ ~fields[meta.fields["v"]].primary_key

\* The classes reached from class kid over at most n interleaved references.
RECURSIVE Ancestors(_, _)
Ancestors(kid, n) ==
  IF n = 0 \/ klasses[kid].interleaved.tag # "ref" THEN {}
  ELSE {klasses[kid].interleaved.ref}
         \cup Ancestors(klasses[kid].interleaved.ref, n - 1)

\* C10: cycles in the interleaved-parent relation are rejected: models() never
\* caches a registry in which a table is interleaved under itself, directly or
\* through a chain of parents.
C10_CyclesRejected ==
  _models # None =>
    \A t \in DOMAIN modelMaps[_models] :
      modelMaps[_models][t]
        \notin Ancestors(modelMaps[_models][t],
                         Cardinality(DOMAIN modelMaps[_models]))

\* The key columns the rows give the index i of table t: the column of the
\* row with the k-th smallest ordinal position at place k.
ExpectedColumns(t, i) ==
  LET R == IndexColumnRowsFor(t, i, TRUE)
      Place(r) ==
        1 + Cardinality({x \in R : x.ordinal_position < r.ordinal_position})
  IN [k \in 1 .. Cardinality(R) |->
        (CHOOSE r \in R : Place(r) = k).column_name]

\* C9: for every (table, index) pair of the result of indexes(), columns is
\* the sequence of the columns of the pair's index-column rows that have an
\* ordinal position, in ascending position, and storing_columns holds, once
\* each, the columns of the pair's rows that have none; so no column of
\* another pair and no storing column is among columns.
C9_KeyAndStoringColumns ==
  out[1].status = "ok" /\ out[1].acc = "indexes" =>
    LET m == indexMaps[out[1].val]
    IN \A t \in DOMAIN m : \A i \in DOMAIN m[t] :
         /\ m[t][i].columns = ExpectedColumns(t, i)
         /\ Range(m[t][i].storing_columns) =
              ColumnNames(IndexColumnRowsFor(t, i, FALSE))
         /\ Len(m[t][i].storing_columns) =
              Cardinality(IndexColumnRowsFor(t, i, FALSE))

\* indexes() has returned the index idx of table A with its key columns v, id
\* and its storing column w.
C9_Witness ==
  /\ out[1].status = "ok"
  /\ out[1].acc = "indexes"
  /\ "A" \in DOMAIN indexMaps[out[1].val]
  /\ "idx" \in DOMAIN indexMaps[out[1].val]["A"]
  /\ indexMaps[out[1].val]["A"]["idx"].columns = << "v", "id" >>
  /\ indexMaps[out[1].val]["A"]["idx"].storing_columns = << "w" >>

\* The last operation was Field(...) (FieldSpec).
Constructed == out[1].acc = "Field"

\* C11: Field(...) raises ValidationError exactly when length < 0, or
\* length > 0 and the type is none of String, StringArray, BytesBase64, or
\* allow_commit_timestamp is set and the type is not Timestamp; otherwise it
\* returns the new Field. So every existing Field has a length > 0 only with
\* a type that supports length, and the flag only with Timestamp.
C11_FieldConstruction ==
  /\ Constructed =>
       /\ (out[1].status = "raised") <=>
            \/ out[1].arg.length < 0
            \/ /\ out[1].arg.length > 0
               /\ out[1].arg.field_type
                    \notin {"String", "StringArray", "BytesBase64"}
            \/ /\ out[1].arg.allow_commit_timestamp
               /\ out[1].arg.field_type # "Timestamp"
       /\ out[1].status = "raised" => out[1].why = "ValidationError"
       /\ out[1].status = "ok" =>
            /\ out[1].val = Len(fields)
            /\ fields[out[1].val].type = out[1].arg.field_type
            /\ fields[out[1].val].length = out[1].arg.length
            /\ fields[out[1].val].nullable = out[1].arg.nullable
            /\ fields[out[1].val].allow_commit_timestamp
                 = out[1].arg.allow_commit_timestamp
  /\ \A f \in DOMAIN fields :
       /\ fields[f].length >= 0
       /\ fields[f].length > 0 => support_length(fields[f].type)
       /\ fields[f].allow_commit_timestamp =>
            support_commit_timestamp(fields[f].type)

\* A String Field of length 36 exists, and Field(Integer, length=1) has just
\* raised.
C11_Witness ==
  /\ Constructed
  /\ out[1].status = "raised"
  /\ out[1].arg.field_type = "Integer"
  /\ out[1].arg.length = 1
  /\ ~out[1].arg.allow_commit_timestamp
  /\ Len(fields) = 1
  /\ fields[1].type = "String"
  /\ fields[1].length = 36

\* The DDL fragment of a type whose '(MAX)' has given way to '(<length>)'.
SizedDdl(t, length) ==
  CASE t = "String" -> S_STRING_OPEN \o str(length) \o << ")" >>
    [] t = "StringArray" -> S_ARRAY_STRING_OPEN \o str(length) \o S_CLOSE_ARRAY
    [] t = "BytesBase64" -> S_BYTES_OPEN \o str(length) \o << ")" >>
    [] OTHER -> ddl(t)

S_TIMESTAMP_OPTIONS ==
  << "T", "I", "M", "E", "S", "T", "A", "M", "P", " ", "O", "P", "T", "I",
    "O", "N", "S", " ", "(", "a", "l", "l", "o", "w", "_", "c", "o", "m",
    "m", "i", "t", "_", "t", "i", "m", "e", "s", "t", "a", "m", "p", "=",
    "t", "r", "u", "e", ")" >>

S_TIMESTAMP_NOT_NULL_OPTIONS ==
  << "T", "I", "M", "E", "S", "T", "A", "M", "P", " ", "N", "O", "T", " ",
    "N", "U", "L", "L", " ", "O", "P", "T", "I", "O", "N", "S", " ", "(",
    "a", "l", "l", "o", "w", "_", "c", "o", "m", "m", "i", "t", "_", "t",
    "i", "m", "e", "s", "t", "a", "m", "p", "=", "t", "r", "u", "e", ")" >>

S_STRING_36_NOT_NULL ==
  << "S", "T", "R", "I", "N", "G", "(", "3", "6", ")", " ", "N", "O", "T",
    " ", "N", "U", "L", "L" >>

\* C12: ddl() returns the type's DDL fragment, with '(MAX)' replaced by
\* '(<length>)' when length > 0, then ' NOT NULL' exactly when the field is
\* not nullable, then ' OPTIONS (allow_commit_timestamp=true)' exactly when
\* the flag is set: the options clause comes after the nullability keyword.
C12_DdlLayout ==
  out[1].acc = "ddl" =>
    LET f == fields[out[1].arg]
    IN /\ out[1].status = "ok"
       /\ out[1].val =
            (IF f.length > 0 THEN SizedDdl(f.type, f.length) ELSE ddl(f.type))
            \o (IF f.nullable THEN << >> ELSE S_NOT_NULL)
            \o (IF f.allow_commit_timestamp THEN S_OPTIONS ELSE << >>)
       /\ f.type = "Timestamp" /\ f.allow_commit_timestamp /\ f.nullable =>
            out[1].val = S_TIMESTAMP_OPTIONS
       /\ f.type = "Timestamp" /\ f.allow_commit_timestamp /\ ~f.nullable =>
            out[1].val = S_TIMESTAMP_NOT_NULL_OPTIONS
       /\ f.type = "String" /\ f.length = 36 /\ ~f.nullable =>
            out[1].val = S_STRING_36_NOT_NULL

\* ddl() of a non-nullable Timestamp Field with the flag has returned the
\* keyword followed by the options clause.
C12_Witness ==
  /\ out[1].acc = "ddl"
  /\ fields[out[1].arg].type = "Timestamp"
  /\ fields[out[1].arg].allow_commit_timestamp
  /\ ~fields[out[1].arg].nullable
  /\ out[1].val = S_TIMESTAMP_NOT_NULL_OPTIONS

\* C13: validate(value) raises ValidationError when value is None and the
\* field is not nullable, returns when value is None and the field is
\* nullable, and for any other value returns exactly when the type's
\* validate_type accepts the value, whatever the nullability: a String field
\* rejects an int and accepts a str.
C13_ValidateDelegates ==
  out[1].acc = "validate" =>
    LET f == fields[out[1].arg.f]
        value == out[1].arg.value
    IN /\ out[1].status \in {"ok", "raised"}
       /\ out[1].status = "raised" => out[1].why = "ValidationError"
       /\ value.class = "NoneType" =>
            (out[1].status = "ok") = f.nullable
       /\ value.class # "NoneType" =>
            (out[1].status = "ok") = validate_type(f.type, value)
       /\ f.type = "String" /\ value.class = "int" => out[1].status = "raised"
       /\ f.type = "String" /\ value.class = "str" => out[1].status = "ok"

\* validate(42) of a nullable String Field has raised.
C13_Witness ==
  /\ out[1].acc = "validate"
  /\ out[1].status = "raised"
  /\ fields[out[1].arg.f].type = "String"
  /\ fields[out[1].arg.f].nullable
  /\ out[1].arg.value.class = "int"

\* The types of ALL_TYPES whose matches accepts the type string.
Matching(type) == {t \in Range(ALL_TYPES) : matches(t, type)}

\* The canonical DDL strings of t: ddl(), and for a type that supports a
\* length, ddl() with '(MAX)' replaced by a length.
CanonicalDdls(t) ==
  {ddl(t)} \cup
  (IF support_length(t)
   THEN {SizedDdl(t, n) : n \in LengthValues \ {-1, 0}}
   ELSE {})

\* C14: for every type V of ALL_TYPES, V.matches(V.ddl()) holds and V is the
\* first type of ALL_TYPES, in declared order, that matches V.ddl(); so
\* resolving the canonical DDL string of V gives V, also when '(MAX)' is
\* replaced by a length for the types that support one.
C14_DdlRoundTrip ==
  out[1].acc = "field_type" =>
    \A V \in Range(ALL_TYPES) :
      out[1].arg \in CanonicalDdls(V) =>
        /\ matches(V, out[1].arg)
        /\ out[1].status = "ok"
        /\ out[1].val = V

\* 'ARRAY<STRING(36)>' has been resolved, to StringArray; every canonical DDL
\* string is among the type strings resolved.
C14_Witness ==
  /\ out[1].acc = "field_type"
  /\ out[1].arg = SizedDdl("StringArray", 36)
  /\ out[1].val = "StringArray"
  /\ \A V \in Range(ALL_TYPES) : CanonicalDdls(V) \subseteq TypeStrings

\* C15: for every type string at most one type of ALL_TYPES matches, so the
\* type the first-match resolution returns is the only one that matches, in
\* whatever order the list is.
C15_MatchersUnambiguous ==
  out[1].acc = "field_type" =>
    /\ Cardinality(Matching(out[1].arg)) <= 1
    /\ out[1].status = "ok" => Matching(out[1].arg) = {out[1].val}
    /\ out[1].status = "raised" => Matching(out[1].arg) = {}

\* A type string that is no canonical DDL string has been resolved, to
\* Timestamp, and 'BOOL' has not been taken for anything but Boolean.
C15_Witness ==
  /\ out[1].acc = "field_type"
  /\ out[1].status = "ok"
  /\ out[1].val = "Timestamp"
  /\ out[1].arg # S_TIMESTAMP
  /\ out[1].arg[Len(out[1].arg)] = ")"
  /\ Matching(S_BOOL) = {"Boolean"}

\* C16: model(name) returns the class registered under name when name is a
\* reflected table and None when it is not; the lookup itself never raises (a
\* call of model() raises only when the build of models() does, and then
\* nothing is cached) and adds no entry to the registry.
C16_LookupByName ==
  /\ [](out[1].acc = "model" /\ th[1].pc = "idle" =>
          /\ out[1].status = "ok" =>
               /\ _models # None
               /\ DOMAIN modelMaps[_models] = TableRowNames
               /\ out[1].arg \in TableRowNames =>
                    /\ out[1].val = modelMaps[_models][out[1].arg]
                    /\ klasses[out[1].val].table = out[1].arg
               /\ out[1].arg \notin TableRowNames => out[1].val = None
          /\ out[1].status = "raised" => _models = None)
  /\ [][th[1].top = "model" /\ th[1].pc = "m65" =>
          /\ modelMaps' = modelMaps
          /\ out'[1].status = "ok"]_vars

\* model('Q') has returned None from a registry that holds A and B.
C16_Witness ==
  /\ out[1].acc = "model"
  /\ out[1].arg = "Q"
  /\ out[1].status = "ok"
  /\ out[1].val = None
  /\ th[1].pc = "idle"
  /\ _models # None
  /\ DOMAIN modelMaps[_models] = {"A", "B"}

\* C17: inside models(), no interleaved reference is resolved and no
\* descriptor is finalized before the registry holds a descriptor for every
\* table of tables(); a descriptor is finalized once, and from then on its
\* interleaved value is empty or a class, never a table name.
C17_TwoPassOrder ==
  /\ [](\A k \in DOMAIN klasses :
          /\ klasses[k].finalized <= 1
          /\ klasses[k].finalized = 1 => klasses[k].interleaved.tag # "name")
  /\ [](th[1].pc = "m43" =>
          \A k \in Range(th[1].models) :
            /\ klasses[k].finalized = 0
            /\ klasses[k].interleaved.tag # "ref")
  /\ [][\A k \in DOMAIN klasses :
          klasses'[k] # klasses[k] =>
            /\ th[1].pc = "m59"
            /\ DOMAIN th[1].models = DOMAIN tableMaps[th[1].tables].data
            /\ k \in Range(th[1].models)
            /\ klasses[k].finalized = 0]_vars

\* The second pass has resolved and finalized the first descriptor, a child
\* whose parent's row came second, and the parent's descriptor is not
\* finalized yet.
C17_Witness ==
  /\ th[1].pc = "m59"
  /\ th[1].i = 2
  /\ Len(catalog.tables) = 2
  /\ catalog.tables[1].parent_table_name = catalog.tables[2].table_name
  /\ LET child == klasses[th[1].models[catalog.tables[1].table_name]]
         parent == th[1].models[catalog.tables[2].table_name]
     IN /\ child.finalized = 1
        /\ child.interleaved = ParentRef(parent)
        /\ klasses[parent].finalized = 0

\* The rows give table t no index named PRIMARY_INDEX, or a parent that is
\* not a reflected table.
Unbuildable(t) ==
  \/ << t, PRIMARY_INDEX >> \notin IndexPairs
  \/ DeclaredParent(t) \notin TableRowNames \cup {NoName}

\* C18: a mapping models() returns has the keys of tables() and finalized
\* descriptors only; when some table cannot be built, every call of models()
\* raises and _models stays None: no registry without that table is served.
C18_NoPartialRegistry ==
  /\ out[1].status = "ok" /\ out[1].acc = "models" =>
       /\ _tables # None
       /\ DOMAIN modelMaps[out[1].val] = DOMAIN tableMaps[_tables].data
       /\ DOMAIN modelMaps[out[1].val] = TableRowNames
       /\ \A t \in DOMAIN modelMaps[out[1].val] :
            /\ klasses[modelMaps[out[1].val][t]].finalized = 1
            /\ klasses[modelMaps[out[1].val][t]].table = t
  /\ (\E t \in TableRowNames : Unbuildable(t)) =>
       /\ _models = None
       /\ modelMaps = << >>
       /\ out[1].acc \in {"models", "model"} => out[1].status = "raised"

\* models() has raised KeyError on the second table, which has no primary
\* index, after it built the descriptor of the first; nothing is cached.
C18_Witness ==
  /\ ModelsFailed
  /\ out[1].why = "KeyError"
  /\ Len(catalog.tables) = 2
  /\ ~Unbuildable(catalog.tables[1].table_name)
  /\ << catalog.tables[2].table_name, PRIMARY_INDEX >> \notin IndexPairs
  /\ \E k \in DOMAIN klasses : klasses[k].table = catalog.tables[1].table_name
  /\ _models = None

\* The column row of column c of table t.
ColumnRowOf(t, c) ==
  CHOOSE r \in Range(catalog.columns) : r.table_name = t /\ r.column_name = c

\* C19: tables() returns a mapping whose keys are the table names of the table
\* rows; a table's parent_table is its row's parent (none when it has none)
\* and its fields map the column names of the table's column rows to a Field
\* with that column's name, position, type and nullability; the column rows
\* of a table without table row give no entry.
C19_TablesResult ==
  out[1].status = "ok" /\ out[1].acc = "tables" =>
    LET data == tableMaps[out[1].val].data
    IN /\ DOMAIN data = TableRowNames
       /\ \A t \in DOMAIN data :
            /\ data[t].parent_table = DeclaredParent(t)
            /\ DOMAIN data[t].fields = ColumnNamesOf(t)
            /\ \A c \in DOMAIN data[t].fields :
                 LET f == fields[data[t].fields[c]]
                     row == ColumnRowOf(t, c)
                 IN /\ f.name = c
                    /\ f.position = row.ordinal_position
                    /\ f.type = row.field_type
                    /\ f.nullable = row.nullable
       /\ \A r \in Range(catalog.columns) :
            r.table_name \notin TableRowNames => r.table_name \notin DOMAIN data

\* tables() has returned A, with its two fields and no parent, and B with
\* parent A, from table rows fetched B first; C, which has a column row only,
\* is no key.
C19_Witness ==
  /\ out[1].status = "ok"
  /\ out[1].acc = "tables"
  /\ catalog.tables = << TableRow("B", "A"), TableRow("A", NoName) >>
  /\ LET data == tableMaps[out[1].val].data
     IN /\ DOMAIN data = {"A", "B"}
        /\ DOMAIN data["A"].fields = {"id", "v"}
        /\ fields[data["A"].fields["v"]].nullable
        /\ data["B"].parent_table = "A"
  /\ \E r \in Range(catalog.columns) : r.table_name = "C"

\* The (table, column) pairs under which the tables mapping id holds Field f.
OwnersOf(id, f) ==
  {<< t, c >> \in TableNames \X {"id", "v", "x"} :
     /\ t \in DOMAIN tableMaps[id].data
     /\ c \in DOMAIN tableMaps[id].data[t].fields
     /\ tableMaps[id].data[t].fields[c] = f}

\* C20: in a mapping built by tables(), and so in the descriptors models()
\* builds from it, every (table, column) pair has a Field object of its own;
\* the step of pass 1 for one table changes primary_key of that table's
\* fields only.
C20_FieldsExclusivelyOwned ==
  /\ [](\A id \in DOMAIN tableMaps : \A f \in DOMAIN fields :
          Cardinality(OwnersOf(id, f)) <= 1)
  /\ [](_models # None =>
          \A t, u \in DOMAIN modelMaps[_models] :
            \A c \in DOMAIN klasses[modelMaps[_models][t]].fields :
              \A d \in DOMAIN klasses[modelMaps[_models][u]].fields :
                klasses[modelMaps[_models][t]].fields[c]
                  = klasses[modelMaps[_models][u]].fields[d]
                => t = u /\ c = d)
  /\ [][th[1].pc = "m43" =>
          LET tm == tableMaps[th[1].tables]
              mine == Range(tm.data[tm.order[th[1].i]].fields)
          IN \A f \in DOMAIN fields : f \notin mine => fields'[f] = fields[f]
       ]_vars

\* Pass 1 has marked the key of the first table, A, and not yet looked at B:
\* B's field id, a key column too, is still unmarked.
C20_Witness ==
  /\ th[1].pc = "m43"
  /\ th[1].i = 2
  /\ catalog.tables = << TableRow("A", NoName), TableRow("B", "A") >>
  /\ LET data == tableMaps[th[1].tables].data
     IN /\ fields[data["A"].fields["id"]].primary_key
        /\ ~fields[data["B"].fields["id"]].primary_key
        /\ data["A"].fields["id"] # data["B"].fields["id"]

====
